---- MODULE Spec2Model ----
(***************************************************************************)
(* Order lifecycle of the Yerevanyan Shawarma API (src/app.py).            *)
(*                                                                         *)
(* The module-level store orders_storage and the counter next_order_id are *)
(* shared by every request.  create_order is a plain `def` handler, which  *)
(* the framework runs on a pool of worker threads: its reads and writes of *)
(* the counter and the store are separate steps that may interleave.       *)
(* get_order, update_order and cancel_order are `async def` handlers       *)
(* without an await: each runs as one step of the event loop.  Only these  *)
(* steps remove keys or change a stored order, and a worker only inserts,  *)
(* so a worker's insert between a handler's membership test and its use of *)
(* the store gives an outcome some order of whole steps gives too.         *)
(* get_menu and get_menu_item read menu_items and write nothing: one step  *)
(* each.                                                                   *)
(*                                                                         *)
(* The Armenian string literals of the source are written in Latin         *)
(* transliteration; distinct literals stay distinct.                       *)
(***************************************************************************)
EXTENDS Integers, Sequences, FiniteSets, TLC

---------------------------------------------------------------------------
(* Bounds of the model. *)

\* POST /orders requests that pass validation in a run of one request at a
\* time, and in a run of overlapping requests.
MaxCreates == 3
MaxOverlappingCreates == 2

\* The worker threads that run create_order.
Workers == {"w1", "w2"}

---------------------------------------------------------------------------
(* Literals of the source. *)

\* "Ընթացքում ա": the status create_order stamps and update_order tests.
InProgressLabel == "Yntacqum a"
\* "Պատրաստ ա": the status field of the OrderResponse envelope.
ReadyResponseLabel == "Patrast a"
\* "պատրաստ": the status cancel_order tests.
CancelReadyLabel == "patrast"

\* class ShawarmaType(Enum): member name -> value.  A member is not a str:
\* ShawarmaType.HAVOV = "ShawarmaType.HAVOV" differs from its value "havov".
ShawarmaType ==
    [m \in {"ShawarmaType.HAVOV", "ShawarmaType.TAVAROV",
            "ShawarmaType.BANJAR", "ShawarmaType.HATUK"} |->
        CASE m = "ShawarmaType.HAVOV"   -> "havov"
          [] m = "ShawarmaType.TAVAROV" -> "tavarov"
          [] m = "ShawarmaType.BANJAR"  -> "banjareghenov"
          [] m = "ShawarmaType.HATUK"   -> "hatuk"]

\* The values of the enumeration.
ShawarmaValues == {ShawarmaType[m] : m \in DOMAIN ShawarmaType}

\* ShawarmaType(v): the member whose value is v (v must be a value).
ShawarmaTypeOf(v) == CHOOSE m \in DOMAIN ShawarmaType : ShawarmaType[m] = v

\* JSON form of a stored item: a member is written as its value, a str as is.
ItemJson(x) == IF x \in DOMAIN ShawarmaType THEN ShawarmaType[x] ELSE x

ItemsJson(xs) == [i \in 1..Len(xs) |-> ItemJson(xs[i])]

---------------------------------------------------------------------------
(* OrderCreate: validation of the body of POST /orders. *)

\* Characters str.strip() removes.
IsSpace(c) == c \in {" ", "\t", "\n"}

RECURSIVE LStrip(_)
LStrip(s) ==
    IF s = <<>> THEN s
    ELSE IF IsSpace(Head(s)) THEN LStrip(Tail(s)) ELSE s

RECURSIVE RStrip(_)
RStrip(s) ==
    IF s = <<>> THEN s
    ELSE IF IsSpace(s[Len(s)]) THEN RStrip(SubSeq(s, 1, Len(s) - 1)) ELSE s

\* v.strip()
Strip(s) == RStrip(LStrip(s))

\* validate_name raises ValueError when len(v.strip()) < 2.
NameMinLen == 2
\* (variant: a name of one character passes)
NameAcceptsOneChar(v) == Len(Strip(v)) >= 1
NameValid(v) == Len(Strip(v)) >= NameMinLen

\* validate_name returns v.strip().
ValidatedName(v) == Strip(v)

\* items: List[ShawarmaType]: every element must be a value of the enum.
ItemsValid(xs) == \A i \in 1..Len(xs) : xs[i] \in ShawarmaValues

\* The parsed items: each value becomes its member.
ParsedItems(xs) == [i \in 1..Len(xs) |-> ShawarmaTypeOf(xs[i])]

\* The body passes OrderCreate's validation.
BodyValid(body) == NameValid(body.customer_name) /\ ItemsValid(body.items)

\* The OrderCreate made of a valid body.
OrderCreate(body) ==
    [customer_name |-> ValidatedName(body.customer_name),
     items |-> ParsedItems(body.items)]

---------------------------------------------------------------------------
(* Inputs. *)

\* customer_name, a string as the sequence of its characters.
ValidNameInputs == { <<"A", "n">>, <<" ", "A", "n", " ">> }
ShortNameInputs == { <<>>, <<" ", " ">>, <<"A">>, <<" ", "A", " ">> }
NameInputs == ValidNameInputs \cup ShortNameInputs

\* items of POST /orders.
CreateItemInputs == { <<"havov">>, <<"tavarov", "havov">>, <<"pizza">> }

\* new_items of PUT /orders/{order_id}: List[str], any strings.
UpdateItemInputs == { <<"pizza">>, <<"hatuk", "havov">> }

\* Bodies of POST /orders: every name, and every list of items.
Bodies ==
    [customer_name : NameInputs, items : {<<"havov">>}]
        \cup [customer_name : ValidNameInputs, items : CreateItemInputs]

\* The inputs of the runs with overlapping requests.
FewBodies ==
    { [customer_name |-> <<" ", "A", "n", " ">>, items |-> <<"havov">>],
      [customer_name |-> <<"A">>, items |-> <<"havov">>] }
FewUpdateItemInputs == { <<"pizza">> }

\* order_id path parameters.
\* The item_name of GET /menu/{item_name} is a str: the value of each member
\* of ShawarmaType, the name of a member, and a string that is neither.  A
\* str is never a member of ShawarmaType: the members are written
\* "ShawarmaType.X" here, and no item_name drawn is of that form.
ItemNameInputs == ShawarmaValues \cup {"HAVOV", "pizza"}
FewItemNameInputs == {"havov"}

OrderIds == 1..(MaxCreates + 1)
FewOrderIds == 1..MaxOverlappingCreates

---------------------------------------------------------------------------
(* State. *)

VARIABLES
    menu_items,      \* menu_items: ShawarmaType member -> ShawarmaItem
    orders_storage,  \* orders_storage: order id -> Order
    next_order_id,   \* next_order_id
    clock,           \* readings of datetime.now() so far: each is later than the last
    pc,              \* each worker's position in create_order
    request,         \* each worker's request body, as received
    order_data,      \* each worker's order_data, the validated body
    new_order,       \* each worker's local new_order
    loaded,          \* each worker's value of next_order_id read but not yet used
    n_built,         \* Order objects constructed so far
    response,        \* the response sent by the step just taken, if any
    issued,          \* ids of the orders returned by create_order, in order
    cancelled,       \* ids cancel_order has removed
    returned         \* id -> the record create_order returned for it, until
                     \* an update or a cancel of that id

storeVars == <<orders_storage, next_order_id>>
workerVars == <<pc, request, order_data, new_order, loaded, n_built>>
historyVars == <<issued, cancelled, returned>>
vars == <<menu_items, orders_storage, next_order_id, clock, pc, request, order_data, new_order,
          loaded, n_built, response, issued, cancelled, returned>>

\* class Order.  obj is the identity of the Python object: the store and a
\* worker's new_order may refer to the same object.
NoOrder ==
    [id |-> 0, customer_name |-> <<>>, items |-> <<>>, status |-> "",
     created_at |-> 0, obj |-> 0]

NoBody == [customer_name |-> <<>>, items |-> <<>>]

\* The "status" of a response body; an HTTPException has none.
EnvelopeStatus(op, code) ==
    IF code # 200 THEN ""
    ELSE CASE op = "create" -> ReadyResponseLabel
           [] op = "get"    -> "success"
           [] op = "update" -> "updated"
           [] op = "cancel" -> "cancelled"
           [] op \in {"menu", "menu_item"} -> "success"
           [] OTHER         -> ""

\* class ShawarmaItem; available defaults to True.
ShawarmaItem(name, price, prep_time) ==
    [name |-> name, price |-> price, available |-> TRUE, prep_time |-> prep_time]

NoItem == [name |-> "", price |-> 0, available |-> FALSE, prep_time |-> 0]

\* menu_items = {...}: the keys are the members of ShawarmaType.
MenuItems ==
    [m \in DOMAIN ShawarmaType |->
        CASE m = "ShawarmaType.HAVOV"   -> ShawarmaItem(m, 1500, 3)
          [] m = "ShawarmaType.TAVAROV" -> ShawarmaItem(m, 1800, 4)
          [] m = "ShawarmaType.BANJAR"  -> ShawarmaItem(m, 1200, 2)
          [] m = "ShawarmaType.HATUK"   -> ShawarmaItem(m, 2200, 6)]

EmptyMenu == [m \in {} |-> NoItem]

\* A response: the handler (op), the HTTP status (code), the body's status,
\* the order_id of the path, the order the handler holds (returned in the
\* body by create, get and update), the order number named in create's
\* message, and the request's body; for the menu handlers the item_name of
\* the path, the item or the menu returned, and the options the 404 lists.
Response(op, code, id, order, msg_id, body) ==
    [op |-> op, code |-> code, status |-> EnvelopeStatus(op, code), id |-> id,
     order |-> order, msg_id |-> msg_id, body |-> body,
     item_name |-> "", menu_item |-> NoItem, menu |-> EmptyMenu, options |-> {}]

NoResponse == Response("none", 0, 0, NoOrder, 0, NoBody)

\* orders_storage[key] = order
StoreInsert(store, key, order) ==
    [k \in (DOMAIN store) \cup {key} |-> IF k = key THEN order ELSE store[k]]

\* del orders_storage[key]
\* (variant: the key is not removed)
StoreDeleteKeeps(store, key) == store
StoreDelete(store, key) == [k \in (DOMAIN store) \ {key} |-> store[k]]

EmptyStore == [k \in {} |-> NoOrder]

Idle(w) == pc[w] = "idle"

\* A step that sends no response.
Silent == response' = NoResponse

\* Workers between validation and the construction of their Order.
Admitted == {w \in Workers : pc[w] = "build"}

Init ==
    /\ menu_items = MenuItems
    /\ orders_storage = EmptyStore
    /\ next_order_id = 1
    /\ clock = 0
    /\ pc = [w \in Workers |-> "idle"]
    /\ request = [w \in Workers |-> NoBody]
    /\ order_data = [w \in Workers |-> NoBody]
    /\ new_order = [w \in Workers |-> NoOrder]
    /\ loaded = [w \in Workers |-> 0]
    /\ n_built = 0
    /\ response = NoResponse
    /\ issued = <<>>
    /\ cancelled = {}
    /\ returned = EmptyStore

---------------------------------------------------------------------------
(* POST /orders: create_order, on a worker thread. *)

\* The request arrives; the framework validates the body against OrderCreate
\* and answers 422 without calling the handler when validation fails.
ReceiveCreate(w, body) ==
    /\ Idle(w)
    /\ IF BodyValid(body)
       THEN /\ pc' = [pc EXCEPT ![w] = "build"]
            /\ request' = [request EXCEPT ![w] = body]
            /\ order_data' = [order_data EXCEPT ![w] = OrderCreate(body)]
            /\ Silent
       ELSE /\ response' = Response("create", 422, 0, NoOrder, 0, body)
            /\ UNCHANGED <<menu_items, pc, request, order_data>>
    /\ UNCHANGED <<menu_items, storeVars, clock, new_order, loaded, n_built, historyVars>>

\* Fewer than max valid requests were received so far.
Admissible(max) == n_built + Cardinality(Admitted) < max

\* The Order create_order constructs from order_data.
\* (variant: the order is stamped with the envelope's status)
BuiltOrderStampsReady(data, id, now, obj) ==
    [id |-> id, customer_name |-> data.customer_name, items |-> data.items,
     status |-> ReadyResponseLabel, created_at |-> now, obj |-> obj]
BuiltOrder(data, id, now, obj) ==
    [id |-> id, customer_name |-> data.customer_name, items |-> data.items,
     status |-> InProgressLabel, created_at |-> now, obj |-> obj]

\* new_order = Order(id=next_order_id, ..., created_at=datetime.now())
BuildOrder(w) ==
    /\ pc[w] = "build"
    /\ new_order' = [new_order EXCEPT
                       ![w] = BuiltOrder(order_data[w], next_order_id, clock + 1,
                                         n_built + 1)]
    /\ clock' = clock + 1
    /\ n_built' = n_built + 1
    /\ pc' = [pc EXCEPT ![w] = "load_key"]
    /\ Silent
    /\ UNCHANGED <<menu_items, storeVars, request, order_data, loaded, historyVars>>

\* orders_storage[next_order_id] = new_order: the key is read ...
LoadKey(w) ==
    /\ pc[w] = "load_key"
    /\ loaded' = [loaded EXCEPT ![w] = next_order_id]
    /\ pc' = [pc EXCEPT ![w] = "store"]
    /\ Silent
    /\ UNCHANGED <<menu_items, storeVars, clock, request, order_data, new_order, n_built, historyVars>>

\* ... and the order is stored under it.
StoreOrder(w) ==
    /\ pc[w] = "store"
    /\ orders_storage' = StoreInsert(orders_storage, loaded[w], new_order[w])
    /\ loaded' = [loaded EXCEPT ![w] = 0]
    /\ pc' = [pc EXCEPT ![w] = "load_counter"]
    /\ Silent
    /\ UNCHANGED <<menu_items, next_order_id, clock, request, order_data, new_order, n_built,
                   historyVars>>

\* next_order_id += 1: the counter is read ...
LoadCounter(w) ==
    /\ pc[w] = "load_counter"
    /\ loaded' = [loaded EXCEPT ![w] = next_order_id]
    /\ pc' = [pc EXCEPT ![w] = "store_counter"]
    /\ Silent
    /\ UNCHANGED <<menu_items, storeVars, clock, request, order_data, new_order, n_built, historyVars>>

\* ... and written back, one larger.
\* (variant: the counter is written back as read)
IncrementedStays(n) == n
Incremented(n) == n + 1

StoreCounter(w) ==
    /\ pc[w] = "store_counter"
    /\ next_order_id' = Incremented(loaded[w])
    /\ loaded' = [loaded EXCEPT ![w] = 0]
    /\ pc' = [pc EXCEPT ![w] = "sleep"]
    /\ Silent
    /\ UNCHANGED <<menu_items, orders_storage, clock, request, order_data, new_order, n_built,
                   historyVars>>

\* print(...); time.sleep(1)
PrintAndSleep(w) ==
    /\ pc[w] = "sleep"
    /\ pc' = [pc EXCEPT ![w] = "respond"]
    /\ Silent
    /\ UNCHANGED <<menu_items, storeVars, clock, request, order_data, new_order, loaded, n_built,
                   historyVars>>

\* The order number of the message: next_order_id - 1, read when the
\* response is built.
MessageOrderId == next_order_id - 1

\* OrderResponse(status="Պատրաստ ա", order=new_order, message=...): the
\* envelope's status is not the order's.
\* (variant: the returned order carries the envelope's status)
CreateResponseStampsOrderReady(order, msg_id, body) ==
    Response("create", 200, 0, [order EXCEPT !.status = ReadyResponseLabel],
             msg_id, body)
CreateResponse(order, msg_id, body) ==
    Response("create", 200, 0, order, msg_id, body)

\* return OrderResponse(...)
RespondCreate(w) ==
    /\ pc[w] = "respond"
    /\ response' = CreateResponse(new_order[w], MessageOrderId, request[w])
    /\ issued' = Append(issued, response'.order.id)
    /\ returned' = [k \in (DOMAIN returned) \cup {response'.order.id} |->
                      IF k = response'.order.id THEN response'.order
                      ELSE returned[k]]
    /\ pc' = [pc EXCEPT ![w] = "idle"]
    /\ request' = [request EXCEPT ![w] = NoBody]
    /\ order_data' = [order_data EXCEPT ![w] = NoBody]
    /\ new_order' = [new_order EXCEPT ![w] = NoOrder]
    /\ UNCHANGED <<menu_items, storeVars, clock, loaded, n_built, cancelled>>

---------------------------------------------------------------------------
(* GET, PUT and DELETE /orders/{order_id}: one step of the event loop each. *)

\* The handler's answer when order_id is not a key of the store.
\* (variant: an unknown id is answered 200)
NotFoundAnswersOk(op, id) == Response(op, 200, id, NoOrder, 0, NoBody)
NotFound(op, id) == Response(op, 404, id, NoOrder, 0, NoBody)

\* What get_order answers for order_id = id when the store is store.
GetAnswer(store, id) ==
    IF id \notin DOMAIN store
    THEN NotFound("get", id)
    ELSE Response("get", 200, id, store[id], 0, NoBody)

\* get_order
\* (variant: the order read is removed from the store)
GetOrderPops(id) ==
    /\ response' = GetAnswer(orders_storage, id)
    /\ orders_storage' = StoreDelete(orders_storage, id)
    /\ UNCHANGED <<menu_items, next_order_id, clock, workerVars, historyVars>>
GetOrder(id) ==
    /\ response' = GetAnswer(orders_storage, id)
    /\ UNCHANGED <<menu_items, storeVars, clock, workerVars, historyVars>>

\* update_order goes on when order.status != "Ընթացքում ա" is false.
\* (variant: update_order tests the label cancel_order tests)
UpdateAllowedUnlessCancelReady(order) == order.status # CancelReadyLabel
UpdateAllowed(order) == order.status = InProgressLabel

\* order.items = new_items, on the object itself: a worker whose new_order
\* is that object sees the new items too.
\* (variant: the update also marks the order with the label cancel_order
\* tests)
WithItemsMarksReady(order, new_items) ==
    [order EXCEPT !.items = new_items, !.status = CancelReadyLabel]
\* (variant: the new items are added to the order's items)
WithItemsAppended(order, new_items) ==
    [order EXCEPT !.items = order.items \o new_items]
WithItems(order, new_items) == [order EXCEPT !.items = new_items]

\* update_order
\* (variant: new_items are validated against the menu as the items of
\* create_order are, and refused with 422 otherwise)
UpdateOrderValidating(id, new_items) ==
    LET body == [customer_name |-> <<>>, items |-> new_items] IN
    IF id \notin DOMAIN orders_storage
    THEN /\ response' = NotFound("update", id)
         /\ UNCHANGED <<menu_items, storeVars, clock, workerVars, historyVars>>
    ELSE LET order == orders_storage[id] IN
         IF ~UpdateAllowed(order) \/ ~ItemsValid(new_items)
         THEN /\ response' = Response("update", 422, id, order, 0, body)
              /\ UNCHANGED <<menu_items, storeVars, clock, workerVars, historyVars>>
         ELSE /\ orders_storage' =
                    [orders_storage EXCEPT ![id] = WithItems(order, new_items)]
              /\ new_order' =
                    [w \in Workers |->
                        IF new_order[w].obj = order.obj
                        THEN WithItems(new_order[w], new_items)
                        ELSE new_order[w]]
              /\ returned' = [k \in (DOMAIN returned) \ {id} |-> returned[k]]
              /\ response' = Response("update", 200, id,
                                      WithItems(order, new_items), 0, body)
              /\ UNCHANGED <<menu_items, next_order_id, clock, pc, request, order_data, loaded,
                             n_built, issued, cancelled>>
UpdateOrder(id, new_items) ==
    LET body == [customer_name |-> <<>>, items |-> new_items] IN
    IF id \notin DOMAIN orders_storage
    THEN /\ response' = NotFound("update", id)
         /\ UNCHANGED <<menu_items, storeVars, clock, workerVars, historyVars>>
    ELSE LET order == orders_storage[id] IN
         IF ~UpdateAllowed(order)
         THEN /\ response' = Response("update", 422, id, order, 0, body)
              /\ UNCHANGED <<menu_items, storeVars, clock, workerVars, historyVars>>
         ELSE /\ orders_storage' =
                    [orders_storage EXCEPT ![id] = WithItems(order, new_items)]
              /\ new_order' =
                    [w \in Workers |->
                        IF new_order[w].obj = order.obj
                        THEN WithItems(new_order[w], new_items)
                        ELSE new_order[w]]
              /\ returned' = [k \in (DOMAIN returned) \ {id} |-> returned[k]]
              /\ response' = Response("update", 200, id,
                                      WithItems(order, new_items), 0, body)
              /\ UNCHANGED <<menu_items, next_order_id, clock, pc, request, order_data, loaded,
                             n_built, issued, cancelled>>

\* cancel_order stops when order.status == "պատրաստ".
CancelRefused(order) == order.status = CancelReadyLabel

\* cancel_order
CancelOrder(id) ==
    IF id \notin DOMAIN orders_storage
    THEN /\ response' = NotFound("cancel", id)
         /\ UNCHANGED <<menu_items, storeVars, clock, workerVars, historyVars>>
    ELSE LET order == orders_storage[id] IN
         IF CancelRefused(order)
         THEN /\ response' = Response("cancel", 422, id, order, 0, NoBody)
              /\ UNCHANGED <<menu_items, storeVars, clock, workerVars, historyVars>>
         ELSE /\ orders_storage' = StoreDelete(orders_storage, id)
              /\ cancelled' = cancelled \cup {id}
              /\ returned' = [k \in (DOMAIN returned) \ {id} |-> returned[k]]
              /\ response' = Response("cancel", 200, id, order, 0, NoBody)
              /\ UNCHANGED <<menu_items, next_order_id, clock, workerVars, issued>>

---------------------------------------------------------------------------
(* GET /menu and GET /menu/{item_name}: one read of menu_items each. *)

\* {"price": item.price, "available": item.available, "prep_time": ...}
MenuEntry(item) ==
    [price |-> item.price, available |-> item.available,
     prep_time |-> item.prep_time]

\* get_menu
GetMenu ==
    /\ response' =
          [Response("menu", 200, 0, NoOrder, 0, NoBody) EXCEPT
              !.menu = [m \in DOMAIN menu_items |-> MenuEntry(menu_items[m])]]
    /\ UNCHANGED <<menu_items, storeVars, clock, workerVars, historyVars>>

\* item_name in menu_items: item_name is a str and the keys are members of
\* ShawarmaType, a plain Enum, whose members equal no str.
InMenu(item_name, menu) == item_name \in DOMAIN menu

\* What get_menu_item answers for item_name when the menu is menu; the 404
\* lists list(menu_items.keys()).
MenuItemAnswer(menu, item_name) ==
    IF ~InMenu(item_name, menu)
    THEN [Response("menu_item", 404, 0, NoOrder, 0, NoBody) EXCEPT
              !.item_name = item_name, !.options = DOMAIN menu]
    ELSE [Response("menu_item", 200, 0, NoOrder, 0, NoBody) EXCEPT
              !.item_name = item_name, !.menu_item = menu[item_name]]

\* get_menu_item
GetMenuItem(item_name) ==
    /\ response' = MenuItemAnswer(menu_items, item_name)
    /\ UNCHANGED <<menu_items, storeVars, clock, workerVars, historyVars>>

---------------------------------------------------------------------------
(* The service: requests of any kind at any time. *)

OverlappingReceiveCreate(w, body) ==
    (BodyValid(body) => Admissible(MaxOverlappingCreates)) /\ ReceiveCreate(w, body)

Next ==
    \/ \E w \in Workers, body \in FewBodies : OverlappingReceiveCreate(w, body)
    \/ \E w \in Workers : BuildOrder(w)
    \/ \E w \in Workers : LoadKey(w)
    \/ \E w \in Workers : StoreOrder(w)
    \/ \E w \in Workers : LoadCounter(w)
    \/ \E w \in Workers : StoreCounter(w)
    \/ \E w \in Workers : PrintAndSleep(w)
    \/ \E w \in Workers : RespondCreate(w)
    \/ \E id \in FewOrderIds : GetOrder(id)
    \/ \E id \in FewOrderIds, new_items \in FewUpdateItemInputs : UpdateOrder(id, new_items)
    \/ \E id \in FewOrderIds : CancelOrder(id)
    \/ GetMenu
    \/ \E item_name \in FewItemNameInputs : GetMenuItem(item_name)

Spec == Init /\ [][Next]_vars

---------------------------------------------------------------------------
(* The service with one request at a time: a request is received only when *)
(* no handler is running.                                                  *)

Quiet == \A w \in Workers : Idle(w)

SeqReceiveCreate(w, body) ==
    Quiet /\ (BodyValid(body) => Admissible(MaxCreates)) /\ ReceiveCreate(w, body)
SeqGetOrder(id) == Quiet /\ GetOrder(id)
SeqUpdateOrder(id, new_items) == Quiet /\ UpdateOrder(id, new_items)
SeqCancelOrder(id) == Quiet /\ CancelOrder(id)
SeqGetMenu == Quiet /\ GetMenu
SeqGetMenuItem(item_name) == Quiet /\ GetMenuItem(item_name)

SeqNext ==
    \/ \E w \in Workers, body \in Bodies : SeqReceiveCreate(w, body)
    \/ \E w \in Workers : BuildOrder(w)
    \/ \E w \in Workers : LoadKey(w)
    \/ \E w \in Workers : StoreOrder(w)
    \/ \E w \in Workers : LoadCounter(w)
    \/ \E w \in Workers : StoreCounter(w)
    \/ \E w \in Workers : PrintAndSleep(w)
    \/ \E w \in Workers : RespondCreate(w)
    \/ \E id \in OrderIds : SeqGetOrder(id)
    \/ \E id \in OrderIds, new_items \in UpdateItemInputs : SeqUpdateOrder(id, new_items)
    \/ \E id \in OrderIds : SeqCancelOrder(id)
    \/ SeqGetMenu
    \/ \E item_name \in ItemNameInputs : SeqGetMenuItem(item_name)

SeqSpec == Init /\ [][SeqNext]_vars

---------------------------------------------------------------------------
(* The handlers applied to a store whose orders carry any status.  Order's *)
(* status is a str; the three literals of the source stand for the label   *)
(* update_order tests, the label cancel_order tests, and any other string. *)

Statuses == {InProgressLabel, CancelReadyLabel, ReadyResponseLabel}

StoredOrders(k) ==
    [id : {k}, customer_name : {<<"A", "n">>},
     items : {<<"ShawarmaType.HAVOV">>}, status : Statuses,
     created_at : {k}, obj : {k}]

InitAnyStatus ==
    \E n \in 0..(MaxCreates - 1) :
        /\ orders_storage \in
              {store \in [1..n -> UNION {StoredOrders(k) : k \in 1..n}] :
                  \A k \in 1..n : store[k].id = k}
        /\ next_order_id = n + 1
        /\ clock = n
        /\ n_built = n
        /\ issued = [k \in 1..n |-> k]
    /\ menu_items = MenuItems
    /\ pc = [w \in Workers |-> "idle"]
    /\ request = [w \in Workers |-> NoBody]
    /\ order_data = [w \in Workers |-> NoBody]
    /\ new_order = [w \in Workers |-> NoOrder]
    /\ loaded = [w \in Workers |-> 0]
    /\ response = NoResponse
    /\ cancelled = {}
    /\ returned = EmptyStore

AnyStatusSpec == InitAnyStatus /\ [][SeqNext]_vars

---------------------------------------------------------------------------
(* Properties. *)

AllOrderIds == OrderIds \cup FewOrderIds

\* The step just taken answered a request of handler op.
Answered(op) == response.op = op

\* C1: with one request at a time, the k-th successful create_order returns
\* id k: the first id is 1, each id is greater than every earlier one, and
\* no id is handed out again after its order was cancelled (every cancelled
\* id stays below the counter, which is the next id handed out).
C1_KthCreateReturnsK ==
    /\ \A k \in DOMAIN issued : issued[k] = k
    /\ \A id \in cancelled : id < next_order_id
    /\ (Answered("create") /\ response.code = 200)
           => /\ response.order.id = Len(issued)
              /\ response.order.id \notin cancelled
              /\ next_order_id > response.order.id

\* C1 witness: a third order is created after the first one was cancelled.
C1_Witness ==
    /\ Answered("create") /\ response.code = 200
    /\ response.order.id = 3
    /\ 1 \in cancelled

\* C2: when create_order calls overlap, no two of them return the same id,
\* and no created order is lost: each returned id is still a key of the
\* store unless it was cancelled.
C2_ConcurrentIdsUnique ==
    /\ \A i, j \in DOMAIN issued : i # j => issued[i] # issued[j]
    /\ \A i \in DOMAIN issued : issued[i] \in (DOMAIN orders_storage) \cup cancelled

\* C3: update_order on a stored order whose status is not the in-progress
\* label answers 422 and leaves the store and the counter as they were.
C3_UpdateOfTerminalOrderRefused ==
    [][ \A id \in AllOrderIds :
          ( /\ response'.op = "update" /\ response'.id = id
            /\ id \in DOMAIN orders_storage
            /\ orders_storage[id].status # InProgressLabel )
          => ( /\ response'.code = 422
               /\ orders_storage' = orders_storage
               /\ next_order_id' = next_order_id ) ]_vars

\* C3 witness: an update was refused for an order with another status.
C3_Witness ==
    /\ Answered("update") /\ response.code = 422
    /\ response.id \in DOMAIN orders_storage
    /\ orders_storage[response.id].status = ReadyResponseLabel

C5_CreatedOrderInProgress ==
    (Answered("create") /\ response.code = 200)
        => /\ response.order.status = InProgressLabel
           /\ response.order.customer_name = Strip(response.body.customer_name)
           /\ ItemsJson(response.order.items) = response.body.items
           /\ response.order.id \in DOMAIN orders_storage
           /\ orders_storage[response.order.id] = response.order
           /\ UpdateAllowed(response.order)
           /\ ~CancelRefused(response.order)

\* C5 witness: an order was created from a name with surrounding blanks.
C5_Witness ==
    /\ Answered("create") /\ response.code = 200
    /\ response.body.customer_name = <<" ", "A", "n", " ">>
    /\ response.body.items = <<"tavarov", "havov">>

\* C6: with one request at a time, once cancel_order(id) has succeeded the
\* id is no key of the store, and get_order(id) answers 404, whatever
\* requests came in between.
C6_CancelledStaysGone ==
    /\ cancelled \cap DOMAIN orders_storage = {}
    /\ (Answered("cancel") /\ response.code = 200)
           => response.id \notin DOMAIN orders_storage
    /\ (Answered("get") /\ response.id \in cancelled) => response.code = 404

\* C6 witness: get_order of a cancelled id, after a later order was created.
C6_Witness ==
    /\ Answered("get") /\ response.id \in cancelled
    /\ (response.id + 1) \in DOMAIN orders_storage

\* C7: with one request at a time, get_order of an id returns the record
\* create_order returned for it, as long as that id was neither updated nor
\* cancelled since.
C7_GetReturnsCreatedRecord ==
    (Answered("get") /\ response.id \in DOMAIN returned)
        => /\ response.code = 200
           /\ response.order = returned[response.id]

\* C7 witness: get_order of a created order that was not touched since,
\* after another order was updated.
C7_Witness ==
    /\ Answered("get") /\ response.id \in DOMAIN returned
    /\ \E k \in DOMAIN orders_storage : k \notin DOMAIN returned

HasUnknownItem(body) == \E i \in 1..Len(body.items) : body.items[i] \notin ShawarmaValues

C9_UnknownIdNotFound ==
    [][ \A id \in AllOrderIds :
          ( /\ response'.op \in {"get", "update", "cancel"}
            /\ response'.id = id
            /\ id \notin DOMAIN orders_storage )
          => ( /\ response'.code = 404
               /\ orders_storage' = orders_storage
               /\ next_order_id' = next_order_id ) ]_vars

\* C9 witness: cancel_order of an id that was cancelled before.
C9_Witness ==
    /\ Answered("cancel") /\ response.code = 404
    /\ response.id \in cancelled

\* C10: get_order changes neither the store nor the counter, so a second
\* get_order of the same id right after it returns the same data.
C10_GetReadOnly ==
    [][ \A id \in AllOrderIds :
          (response'.op = "get" /\ response'.id = id)
          => ( /\ orders_storage' = orders_storage
               /\ next_order_id' = next_order_id
               /\ response' = GetAnswer(orders_storage', id) ) ]_vars

\* C10 witness: get_order returned a stored order.
C10_Witness ==
    /\ Answered("get") /\ response.code = 200
    /\ response.order.items = <<"pizza">>

\* C11: GET /menu/{item_name} with item_name one of the 4 identifiers of the
\* menu answers 200 with that item's price, availability and prep time; with
\* any other item_name it answers 404 and lists the 4 identifiers; the menu
\* is the same afterwards.
C11_MenuLookupFindsEachIdentifier ==
    /\ menu_items = MenuItems
    /\ Answered("menu_item") =>
          IF response.item_name \in ShawarmaValues
          THEN LET item == MenuItems[ShawarmaTypeOf(response.item_name)] IN
               /\ response.code = 200
               /\ response.menu_item.price = item.price
               /\ response.menu_item.available = item.available
               /\ response.menu_item.prep_time = item.prep_time
          ELSE /\ response.code = 404
               /\ response.options = DOMAIN ShawarmaType

\* C12: in every state every stored order has the in-progress status, and
\* no update_order or cancel_order is answered 422.
C12_StatusNeverChanges ==
    /\ \A k \in DOMAIN orders_storage :
          orders_storage[k].status = InProgressLabel
    /\ (Answered("update") \/ Answered("cancel")) => response.code # 422

\* An order was updated, another was then cancelled, and the updated one is
\* still stored.
C12_Witness ==
    /\ Answered("cancel")
    /\ response.code = 200
    /\ \E k \in DOMAIN orders_storage :
          /\ orders_storage[k].items \in FewUpdateItemInputs
          /\ orders_storage[k].status = InProgressLabel

\* C13: an update_order answered 200 for order_id = id and new_items leaves
\* the keys of the store, every other stored order, the counter, and the id,
\* customer_name, status and created_at of the order under id as they were,
\* makes new_items the items of that order, and a get_order of id that
\* follows returns the order with those items.
C13_UpdateReplacesOnlyItems ==
    [][ \A id \in AllOrderIds :
          ( /\ response'.op = "update"
            /\ response'.code = 200
            /\ response'.id = id )
          => LET new_items == response'.body.items
                 before == orders_storage[id]
                 after == orders_storage'[id]
                 got == GetAnswer(orders_storage', id)
             IN  /\ id \in DOMAIN orders_storage
                 /\ DOMAIN orders_storage' = DOMAIN orders_storage
                 /\ \A k \in (DOMAIN orders_storage) \ {id} :
                       orders_storage'[k] = orders_storage[k]
                 /\ next_order_id' = next_order_id
                 /\ after.id = before.id
                 /\ after.customer_name = before.customer_name
                 /\ after.status = before.status
                 /\ after.created_at = before.created_at
                 /\ after.items = new_items
                 /\ got.code = 200
                 /\ got.order.items = new_items
                 /\ got.order.id = before.id ]_vars

\* Two orders are stored and one of them has just been updated: it holds
\* the new items, which differ from the items of the other.
C13_Witness ==
    /\ Answered("update")
    /\ response.code = 200
    /\ response.id \in DOMAIN orders_storage
    /\ orders_storage[response.id].items = response.body.items
    /\ \E k \in (DOMAIN orders_storage) \ {response.id} :
          orders_storage[k].items # response.body.items

\* An item of an order that is the value of no member of ShawarmaType.
OffMenu(x) == ItemJson(x) \notin ShawarmaValues

\* C14: every update_order of a stored order whose status is the in-progress
\* label is answered 200 and stores new_items as given, whether or not each
\* of new_items is a menu identifier.
C14_UpdateAcceptsAnyItems ==
    [][ \A id \in AllOrderIds :
          ( /\ response'.op = "update"
            /\ response'.id = id
            /\ id \in DOMAIN orders_storage
            /\ orders_storage[id].status = InProgressLabel )
          => /\ response'.code = 200
             /\ orders_storage'[id].items = response'.body.items
             /\ response'.order.items = response'.body.items ]_vars

\* An update with an identifier outside the menu has just been answered 200,
\* and the stored order holds that identifier.
C14_Witness ==
    /\ Answered("update")
    /\ response.code = 200
    /\ \E i \in 1..Len(response.body.items) : OffMenu(response.body.items[i])
    /\ response.id \in DOMAIN orders_storage
    /\ \E i \in 1..Len(orders_storage[response.id].items) :
          OffMenu(orders_storage[response.id].items[i])

\* C15: in every state, also while create_order calls interleave, every
\* order of the store is stored under its own id, and a get_order answered
\* 200 for order_id returns an order whose id is order_id.
C15_StoredUnderOwnId ==
    /\ \A k \in DOMAIN orders_storage : orders_storage[k].id = k
    /\ (Answered("get") /\ response.code = 200) => response.order.id = response.id

\* C16: the order number in the message of a create_order response is the id
\* of the order returned in that response, also when another create_order
\* has advanced the counter while the handler slept.
C16_MessageNamesReturnedOrder ==
    (Answered("create") /\ response.code = 200)
        => response.msg_id = response.order.id

====
